---- MODULE Spec2Model ----
(***************************************************************************)
(* Model of the GFMAP job manager (src/openeo_gfmap/manager/job_manager.py) *)
(*                                                                         *)
(* One polling thread runs run_jobs: the polling loop of the base class    *)
(* (_update_statuses, table persist, job launch, loop test), then          *)
(* _wait_queued_actions and _write_stac.  Every future submitted to the    *)
(* ThreadPoolExecutor is a worker running on_job_done or on_job_error      *)
(* under retry_on_exception, followed by done_callback, which executes in  *)
(* the worker thread that resolved the future.                             *)
(*                                                                         *)
(* A row has at most one unresolved future at a time (a row is submitted   *)
(* only while its status is active, and it leaves the active statuses      *)
(* until its callback has written), so the worker of a row is indexed by   *)
(* the row.  Each job yields one catalog item, whose id is read from the   *)
(* result metadata of the job: the catalog is the bag of item ids.         *)
(***************************************************************************)
EXTENDS Naturals, Sequences, FiniteSets

\* Number of rows of the job table.
NRows == 2

\* n_threads: int = 1, the default size of the executor.
DefaultThreads == 1

\* retry_on_exception(max_retries=2) on on_job_done and on_job_error.
MaxRetries == 2

VARIABLES
    status,             \* df.status, the in-memory job table
    persisted,          \* the status column of the table file on disk
    to_restart_failed,  \* self._to_restart_failed
    to_resume_postjob,  \* self._to_resume_postjob
    n_threads,          \* self._n_threads, max_workers of the executor
    remote,             \* the status of the row's job on the backend
    item_id,            \* item.id of the item in the job's result metadata
    ppc,                \* position of the polling thread
    todo,               \* rows of `active` not yet iterated in this cycle
    pwrite,             \* job_status computed for Head(todo), not yet stored
    fut,                \* state of the row's latest future in self._futures
    wkind,              \* the action the row's future runs
    wpc,                \* position of the row's worker
    attempt,            \* invocation number inside retry_on_exception
    cbseen,             \* current_status read by done_callback
    lock,               \* holder of _stac_lock, 0 when free
    catalog,            \* number of items per id in self._root_collection
    checkpoint,         \* content of catalogue_cache.bin
    final,              \* the collection saved by _write_stac
    logfile,            \* content of failed_jobs/<title>_<id>.log per row
    nsub,               \* (history) submissions of the row, saturating
    merges,             \* (history) on_job_done merges of the row's job
    origin,             \* (history) how startup recovery treated the row
    rt,                 \* one call of a retry_on_exception wrapper on its own
    temporal_extent,    \* quintad_intervals: its argument (start, end)
    quintads,           \* quintad_intervals: the list it returned
    splitter,           \* which job splitter is called
    polygons,           \* job splitter: the input rows
    max_points,         \* job splitter: its max_points argument
    split_datasets,     \* job splitter: the list of groups it returned
    oj                  \* one call of a method of the manager followed statement by statement

vars == <<status, persisted, to_restart_failed, to_resume_postjob, n_threads, remote, ppc, todo,
          pwrite, fut, wkind, wpc, attempt, cbseen, lock, catalog, checkpoint,
          final, logfile, nsub, merges, origin, item_id, rt,
         temporal_extent, quintads, splitter, polygons, max_points, split_datasets, oj>>

Rows == DOMAIN status

ActiveStatuses == {"created", "queued", "running"}

PostprocStatuses == {"postprocessing", "postprocessing-error"}

\* The statuses at which the polling loop of the base class stops tracking.
TerminalStatuses == {"finished", "error", "start_failed"}

AllStatuses == {"not_started"} \cup ActiveStatuses \cup PostprocStatuses
                 \cup TerminalStatuses

\* What describe_job()["status"] can hold for a started job.
RemoteStatuses == {"queued", "running", "finished", "error"}

\* The backend statuses a job can be in while its row has the status st
\* ("none": the row has no started job, or the job is not looked at again).
RemoteOf(st) ==
    IF st \in ActiveStatuses THEN RemoteStatuses
    ELSE IF st \in {"postprocessing", "finished"} THEN {"finished"}
    ELSE IF st \in {"postprocessing-error", "error"} THEN {"error"}
    ELSE {"none"}

Sat(n) == IF n < 2 THEN n + 1 ELSE 2

----------------------------------------------------------------------------
(* Construction and the table loaded by run_jobs *)

\* Items a previous run left in the catalog: a finished row merged its item,
\* a row found in postprocessing may have merged it before the process stopped.
PriorItems(st) ==
    IF st = "finished" THEN {1}
    ELSE IF st = "postprocessing" THEN {0, 1}
    ELSE {0}

NoItems == [r \in Rows |-> 0]

\* The backend gives every job its own item id.
DistinctIds == [r \in Rows |-> r]

\* A catalog file: absent, completely written with `items`, or torn.
NoFile == [state |-> "absent", items |-> NoItems]

Saved(items) == [state |-> "complete", items |-> items]

Torn == [state |-> "torn", items |-> NoItems]

\* No call of the wrapper is followed on its own.
RetryIdle == [state |-> "idle", n |-> 0, d |-> 0, calls |-> 0,
              sleeps |-> << >>, latest |-> 0, result |-> 0]

\* No call of a method of the manager is followed statement by statement.
OjIdle == [pc |-> "idle"]

\* quintad_intervals and the job splitters are not called.
HelpersIdle ==
    /\ oj = OjIdle
    /\ temporal_extent = << >>
    /\ quintads = << >>
    /\ splitter = "none"
    /\ polygons = << >>
    /\ max_points = 0
    /\ split_datasets = << >>

InitCommon ==
    /\ persisted = status
    /\ ppc = "check"
    /\ todo = << >>
    /\ pwrite = "none"
    /\ fut = [r \in Rows |-> "none"]
    /\ wkind = [r \in Rows |-> "none"]
    /\ wpc = [r \in Rows |-> "idle"]
    /\ attempt = [r \in Rows |-> 0]
    /\ cbseen = [r \in Rows |-> "none"]
    /\ lock = 0
    /\ catalog \in [Rows -> {0, 1}]
    /\ \A r \in Rows : catalog[item_id[r]] \in PriorItems(status[r])
    /\ \A i \in Rows : (\A r \in Rows : item_id[r] # i) => catalog[i] = 0
    /\ checkpoint = IF catalog = NoItems THEN NoFile ELSE Saved(catalog)
    /\ final = NoFile
    /\ logfile = [r \in Rows |-> "none"]
    /\ nsub = [r \in Rows |-> 0]
    /\ merges = [r \in Rows |-> catalog[item_id[r]]]
    /\ origin = [r \in Rows |-> "plain"]

Init ==
    /\ status \in [1..NRows -> AllStatuses]
    /\ to_restart_failed \in BOOLEAN
    /\ to_resume_postjob \in BOOLEAN
    /\ n_threads = DefaultThreads
    /\ item_id = DistinctIds
    /\ remote \in [Rows -> RemoteStatuses \cup {"none"}]
    /\ \A r \in Rows : remote[r] \in RemoteOf(status[r])
    /\ InitCommon
    /\ HelpersIdle
    /\ rt = RetryIdle

----------------------------------------------------------------------------
(* The executor: submit, retry_on_exception, the post-job actions *)

\* self._executor.submit(...) + add_done_callback + self._futures.append
Submit(rs, kind) ==
    /\ fut' = [r \in Rows |-> IF r \in rs THEN "pending" ELSE fut[r]]
    /\ wkind' = [r \in Rows |-> IF r \in rs THEN kind[r] ELSE wkind[r]]
    /\ wpc' = [r \in Rows |-> IF r \in rs THEN "queued" ELSE wpc[r]]
    /\ attempt' = [r \in Rows |-> IF r \in rs THEN 1 ELSE attempt[r]]
    /\ nsub' = [r \in Rows |-> IF r \in rs THEN Sat(nsub[r]) ELSE nsub[r]]

\* The worker thread of the pool is taken by the row's future, from its first
\* invocation to the end of its callback.
HoldsThread(r) == wpc[r] \in {"retry", "ready", "writing", "cb_ok", "cb_exc"}

\* The wrapped action can be invoked: again after a failed invocation, or for
\* the first time once a thread of the pool is free.
CanInvoke(r) ==
    \/ wpc[r] = "retry"
    \/ /\ wpc[r] = "queued"
       /\ Cardinality({x \in Rows : HoldsThread(x)}) < n_threads

\* The future resolves (with or without exception) and done_callback starts
\* in the worker thread: it reads current_status.
Resolve(r, outcome) ==
    /\ fut' = [fut EXCEPT ![r] = outcome]
    /\ wpc' = [wpc EXCEPT ![r] = IF outcome = "ok" THEN "cb_ok" ELSE "cb_exc"]
    /\ cbseen' = [cbseen EXCEPT ![r] = status[r]]
    /\ attempt' = [attempt EXCEPT ![r] = 0]

\* range(max_retries): is another invocation left after this one raised?
RetryLeft(n) == n < MaxRetries

\* An invocation raised: retry_on_exception sleeps, then invokes again or,
\* with the budget exhausted, raises the latest exception into the future.
AttemptRaised(r) ==
    IF RetryLeft(attempt[r])
    THEN /\ attempt' = [attempt EXCEPT ![r] = @ + 1]
         /\ wpc' = [wpc EXCEPT ![r] = "retry"]
         /\ UNCHANGED <<fut, cbseen>>
    ELSE Resolve(r, "exc")

\* on_job_done, the download loop and item parsing, hook included: no raise.
DownloadOk(r) ==
    /\ CanInvoke(r) /\ wkind[r] = "done"
    /\ wpc' = [wpc EXCEPT ![r] = "ready"]
    /\ UNCHANGED <<status, persisted, to_restart_failed, to_resume_postjob, n_threads, remote,
                   ppc, todo, pwrite, fut, wkind, attempt, cbseen, lock,
                   catalog, checkpoint, final, logfile, nsub, origin, merges, item_id, rt,
                   temporal_extent, quintads, splitter, polygons, max_points, split_datasets, oj>>

\* on_job_done: the downloads succeed, but the item of the result metadata
\* does not correlate (KeyError on job_products, IndexError on an item
\* without asset, AssertionError on an item with several): the except clause
\* of the parsing loop logs and the loop goes on, job_items stays empty.
ItemSkipped(r) ==
    /\ CanInvoke(r) /\ wkind[r] = "done"
    /\ wpc' = [wpc EXCEPT ![r] = "ready_empty"]
    /\ UNCHANGED <<status, persisted, to_restart_failed, to_resume_postjob, n_threads, remote,
                   ppc, todo, pwrite, fut, wkind, attempt, cbseen, lock,
                   catalog, checkpoint, final, logfile, nsub, origin, merges, item_id, rt,
                   temporal_extent, quintads, splitter, polygons, max_points, split_datasets, oj>>

\* on_job_done: an asset download (or the hook) raises; `raise e`.
DownloadFail(r) ==
    /\ CanInvoke(r) /\ wkind[r] = "done"
    /\ AttemptRaised(r)
    /\ UNCHANGED <<status, persisted, to_restart_failed, to_resume_postjob, n_threads, remote,
                   ppc, todo, pwrite, wkind, lock, catalog, checkpoint,
                   final, logfile, nsub, origin, merges, item_id, rt,
                   temporal_extent, quintads, splitter, polygons, max_points, split_datasets, oj>>

\* A `with` block that any thread enters at once.
LockNotTaken == TRUE

\* `with lock:` can be entered.
LockFree == lock = 0

\* job_items = [item for item in job_items if item.id not in existing_ids]
NewItems(r) ==
    IF wpc[r] = "ready" /\ catalog[item_id[r]] = 0 THEN {item_id[r]} ELSE {}

\* self._root_collection.add_items(job_items)
AddItems(items) ==
    [i \in Rows |-> IF i \in items THEN catalog[i] + 1 ELSE catalog[i]]

\* on_job_done: take the lock, filter against the existing ids, insert, and
\* open the checkpoint file for writing.
EnterLock(r) ==
    /\ wpc[r] \in {"ready", "ready_empty"}
    /\ LockFree
    /\ lock' = r
    /\ catalog' = AddItems(NewItems(r))
    /\ merges' = [merges EXCEPT ![r] = IF wpc[r] = "ready" THEN Sat(@) ELSE @]
    /\ wpc' = [wpc EXCEPT ![r] = "writing"]
    /\ UNCHANGED <<status, persisted, to_restart_failed, to_resume_postjob, n_threads, remote,
                   ppc, todo, pwrite, fut, wkind, attempt, cbseen, checkpoint,
                   final, logfile, nsub, origin, item_id, rt,
                   temporal_extent, quintads, splitter, polygons, max_points, split_datasets, oj>>

\* _persist_stac completes, the lock is released, on_job_done returns.
PersistOk(r) ==
    /\ wpc[r] = "writing"
    /\ checkpoint' = Saved(catalog)
    /\ lock' = 0
    /\ Resolve(r, "ok")
    /\ UNCHANGED <<status, persisted, to_restart_failed, to_resume_postjob, n_threads, remote,
                   ppc, todo, pwrite, wkind, catalog, final, logfile, nsub,
                   origin, merges, item_id, rt,
                   temporal_extent, quintads, splitter, polygons, max_points, split_datasets, oj>>

\* A failing checkpoint write that leaves the lock taken.
PersistFailLocked(r) ==
    /\ wpc[r] = "writing"
    /\ checkpoint' \in {checkpoint, Torn}
    /\ lock' = lock
    /\ AttemptRaised(r)
    /\ UNCHANGED <<status, persisted, to_restart_failed, to_resume_postjob, n_threads, remote,
                   ppc, todo, pwrite, wkind, catalog, final, logfile, nsub,
                   origin, merges, item_id, rt,
                   temporal_extent, quintads, splitter, polygons, max_points, split_datasets, oj>>

\* _persist_stac raises: the file is left as it was (open failed) or torn
\* (dump failed); `raise e` leaves the with block, releasing the lock.
PersistFail(r) ==
    /\ wpc[r] = "writing"
    /\ checkpoint' \in {checkpoint, Torn}
    /\ lock' = 0
    /\ AttemptRaised(r)
    /\ UNCHANGED <<status, persisted, to_restart_failed, to_resume_postjob, n_threads, remote,
                   ppc, todo, pwrite, wkind, catalog, final, logfile, nsub,
                   origin, merges, item_id, rt,
                   temporal_extent, quintads, splitter, polygons, max_points, split_datasets, oj>>

\* What job.logs() gives on_job_error.
LogOutcomes == {"error_entries", "no_error_entry", "logs_raised"}

\* The text on_job_error writes to the log file.
LogText(logs) == IF logs = "error_entries" THEN "error_logs" ELSE "placeholder"

\* on_job_error runs to its end: logs (a raise is swallowed), describe_job,
\* write_text.
ErrorActionOk(r) ==
    /\ CanInvoke(r) /\ wkind[r] = "error"
    /\ \E logs \in LogOutcomes : logfile' = [logfile EXCEPT ![r] = LogText(logs)]
    /\ Resolve(r, "ok")
    /\ UNCHANGED <<status, persisted, to_restart_failed, to_resume_postjob, n_threads, remote,
                   ppc, todo, pwrite, wkind, lock, catalog, checkpoint, final,
                   nsub, origin, merges, item_id, rt,
                   temporal_extent, quintads, splitter, polygons, max_points, split_datasets, oj>>

\* on_job_error: job.describe_job() (or mkdir, write_text) raises; nothing of
\* on_job_error catches it.
ErrorActionFail(r) ==
    /\ CanInvoke(r) /\ wkind[r] = "error"
    /\ AttemptRaised(r)
    /\ UNCHANGED <<status, persisted, to_restart_failed, to_resume_postjob, n_threads, remote,
                   ppc, todo, pwrite, wkind, lock, catalog, checkpoint, final,
                   logfile, nsub, origin, merges, item_id, rt,
                   temporal_extent, quintads, splitter, polygons, max_points, split_datasets, oj>>

\* A callback that does not look at the exception of the future.
done_callback_blind(current_status, exception) ==
    IF current_status = "postprocessing" THEN "finished"
    ELSE IF current_status = "postprocessing-error" THEN "error"
    ELSE IF current_status = "running" THEN "running"
    ELSE "no_write"

\* A callback that stores the terminal status of the other kind of action.
done_callback_swapped(current_status, exception) ==
    IF ~exception
    THEN IF current_status = "postprocessing" THEN "error"
         ELSE IF current_status = "postprocessing-error" THEN "finished"
         ELSE IF current_status = "running" THEN "running"
         ELSE "no_write"
    ELSE "error"

\* done_callback: the status it stores, "no_write" when it raises ValueError
\* before storing anything.
done_callback(current_status, exception) ==
    IF ~exception
    THEN IF current_status = "postprocessing" THEN "finished"
         ELSE IF current_status = "postprocessing-error" THEN "error"
         ELSE IF current_status = "running" THEN "running"
         ELSE "no_write"
    ELSE "error"

\* done_callback stores the status; the worker is free again.
CallbackWrite(r) ==
    /\ wpc[r] \in {"cb_ok", "cb_exc"}
    /\ LET new == done_callback(cbseen[r], wpc[r] = "cb_exc")
       IN status' = IF new = "no_write" THEN status
                    ELSE [status EXCEPT ![r] = new]
    /\ wpc' = [wpc EXCEPT ![r] = "idle"]
    /\ cbseen' = [cbseen EXCEPT ![r] = "none"]
    /\ wkind' = [wkind EXCEPT ![r] = "none"]
    /\ UNCHANGED <<persisted, to_restart_failed, to_resume_postjob, n_threads, remote, ppc, todo,
                   pwrite, fut, attempt, lock, catalog, checkpoint,
                   final, logfile, nsub, origin, merges, item_id, rt,
                   temporal_extent, quintads, splitter, polygons, max_points, split_datasets, oj>>

----------------------------------------------------------------------------
(* The backend *)

\* The backend moves a job on: queued, running, then finished or error.
BackendStep(r) ==
    /\ \/ remote[r] = "queued" /\ remote' = [remote EXCEPT ![r] = "running"]
       \/ remote[r] = "running" /\ remote' = [remote EXCEPT ![r] = "finished"]
       \/ remote[r] = "running" /\ remote' = [remote EXCEPT ![r] = "error"]
    /\ UNCHANGED <<status, persisted, to_restart_failed, to_resume_postjob,
                   n_threads, ppc, todo, pwrite, fut, wkind, wpc, attempt,
                   cbseen, lock, catalog, checkpoint, final, logfile, nsub,
                   origin, merges, item_id, rt,
                   temporal_extent, quintads, splitter, polygons, max_points, split_datasets, oj>>

----------------------------------------------------------------------------
(* The polling thread: run_jobs and _update_statuses *)

\* The `while` test of the polling loop: rows are left to track.
LoopContinue ==
    /\ ppc = "check"
    /\ \E r \in Rows : status[r] \notin TerminalStatuses
    /\ ppc' = "start"
    /\ UNCHANGED <<status, persisted, to_restart_failed, to_resume_postjob, n_threads, remote,
                   todo, pwrite, fut, wkind, wpc, attempt, cbseen, lock,
                   catalog, checkpoint, final, logfile, nsub, origin, merges, item_id, rt,
                   temporal_extent, quintads, splitter, polygons, max_points, split_datasets, oj>>

\* The `while` test fails: the polling loop returns into run_jobs.
LoopExit ==
    /\ ppc = "check"
    /\ \A r \in Rows : status[r] \in TerminalStatuses
    /\ ppc' = "wait"
    /\ UNCHANGED <<status, persisted, to_restart_failed, to_resume_postjob, n_threads, remote,
                   todo, pwrite, fut, wkind, wpc, attempt, cbseen, lock,
                   catalog, checkpoint, final, logfile, nsub, origin, merges, item_id, rt,
                   temporal_extent, quintads, splitter, polygons, max_points, split_datasets, oj>>

\* A selection of the rows in error alone.
IsErrorTask(st) == st = "error"

\* failed_tasks = df[df.status.isin(["error", "start_failed"])]
IsFailedTask(st) == st \in {"error", "start_failed"}

\* _update_statuses, first call with restart_failed: _restart_failed_jobs.
RestartFailedJobs ==
    /\ ppc = "start"
    /\ to_restart_failed
    /\ status' = [r \in Rows |-> IF IsFailedTask(status[r]) THEN "not_started"
                                 ELSE status[r]]
    /\ origin' = [r \in Rows |-> IF IsFailedTask(status[r]) THEN "restarted"
                                 ELSE origin[r]]
    /\ to_restart_failed' = FALSE
    /\ UNCHANGED <<persisted, to_resume_postjob, n_threads, remote, ppc, todo, pwrite, fut, wkind,
                   wpc, attempt, cbseen, lock, catalog, checkpoint, final,
                   logfile, nsub, merges, item_id, rt,
                   temporal_extent, quintads, splitter, polygons, max_points, split_datasets, oj>>

\* postprocessing_tasks = df[df.status.isin([...])]
PostprocessingTasks == {r \in Rows : status[r] \in PostprocStatuses}

\* A resume flag that is left set.
ResumeFlagKept == TRUE

\* self._to_resume_postjob after _resume_postjob_actions returned.
ResumeFlagAfter == FALSE

\* _update_statuses, first call with resume_postproc: _resume_postjob_actions.
ResumePostjobActions ==
    /\ ppc = "start"
    /\ ~to_restart_failed
    /\ to_resume_postjob
    /\ Submit(PostprocessingTasks,
              [r \in Rows |-> IF status[r] = "postprocessing" THEN "done"
                              ELSE "error"])
    /\ origin' = [r \in Rows |-> IF r \in PostprocessingTasks THEN "resumed"
                                 ELSE origin[r]]
    /\ to_resume_postjob' = ResumeFlagAfter
    /\ UNCHANGED <<status, persisted, to_restart_failed, n_threads, remote, ppc, todo, pwrite,
                   cbseen, lock, catalog, checkpoint, final, logfile, merges, item_id, rt,
                   temporal_extent, quintads, splitter, polygons, max_points, split_datasets, oj>>

RECURSIVE RowsFrom(_)
\* The rows of `active`, in index order, from row r on.
RowsFrom(r) ==
    IF r \notin Rows THEN << >>
    ELSE IF status[r] \in ActiveStatuses THEN <<r>> \o RowsFrom(r + 1)
    ELSE RowsFrom(r + 1)

\* active = df[df.status.isin(["created", "queued", "running"])]
BeginPoll ==
    /\ ppc = "start"
    /\ ~to_restart_failed
    /\ ~to_resume_postjob
    /\ todo' = RowsFrom(1)
    /\ ppc' = "poll"
    /\ UNCHANGED <<status, persisted, to_restart_failed, to_resume_postjob, n_threads, remote,
                   pwrite, fut, wkind, wpc, attempt, cbseen, lock, catalog,
                   checkpoint, final, logfile, nsub, origin, merges, item_id, rt,
                   temporal_extent, quintads, splitter, polygons, max_points, split_datasets, oj>>

\* First test of the row's iteration: queue on_job_done?
QueuesDone(st, job_status) == st \in ActiveStatuses /\ job_status = "finished"

\* Second test of the row's iteration: queue on_job_error?
QueuesError(st, job_status) == st # "error" /\ job_status = "error"

\* A job_status that is the status the backend reports, whatever it is.
JobStatusMirrored(st, job_status) == job_status

\* job_status at the end of the row's iteration.
JobStatus(st, job_status) ==
    IF QueuesError(st, job_status) THEN "postprocessing-error"
    ELSE IF QueuesDone(st, job_status) THEN "postprocessing"
    ELSE job_status

\* One row of the loop whose job is still going: describe_job, then
\* df.loc[idx, "status"] = job_status; nothing is submitted.
PollMirror ==
    /\ ppc = "poll" /\ todo # << >> /\ pwrite = "none"
    /\ LET r == Head(todo) IN
        /\ ~QueuesDone(status[r], remote[r])
        /\ ~QueuesError(status[r], remote[r])
        /\ status' = [status EXCEPT ![r] = JobStatus(status[r], remote[r])]
    /\ todo' = Tail(todo)
    /\ UNCHANGED <<persisted, to_restart_failed, to_resume_postjob, n_threads, remote, ppc,
                   pwrite, fut, wkind, wpc, attempt, cbseen, lock, catalog,
                   checkpoint, final, logfile, nsub, origin, merges, item_id, rt,
                   temporal_extent, quintads, splitter, polygons, max_points, split_datasets, oj>>

\* One row of the loop whose job ended: describe_job, submit the post-job
\* action with its callback; job_status is not stored yet.
PollSubmit ==
    /\ ppc = "poll" /\ todo # << >> /\ pwrite = "none"
    /\ LET r == Head(todo) IN
        /\ QueuesDone(status[r], remote[r]) \/ QueuesError(status[r], remote[r])
        /\ Submit({r}, [x \in Rows |-> IF QueuesError(status[r], remote[r])
                                       THEN "error" ELSE "done"])
        /\ pwrite' = JobStatus(status[r], remote[r])
    /\ UNCHANGED <<status, persisted, to_restart_failed, to_resume_postjob, n_threads, remote,
                   ppc, todo, cbseen, lock, catalog, checkpoint, final,
                   logfile, origin, merges, item_id, rt,
                   temporal_extent, quintads, splitter, polygons, max_points, split_datasets, oj>>

\* df.loc[idx, "status"] = job_status, after a submit.
PollWrite ==
    /\ ppc = "poll" /\ pwrite # "none"
    /\ status' = [status EXCEPT ![Head(todo)] = pwrite]
    /\ pwrite' = "none"
    /\ todo' = Tail(todo)
    /\ UNCHANGED <<persisted, to_restart_failed, to_resume_postjob, n_threads, remote, ppc, fut,
                   wkind, wpc, attempt, cbseen, lock, catalog, checkpoint,
                   final, logfile, nsub, origin, merges, item_id, rt,
                   temporal_extent, quintads, splitter, polygons, max_points, split_datasets, oj>>

\* job.describe_job() raises inside the loop: nothing of _update_statuses
\* catches it, the rows still in `todo` are not iterated; the polling loop
\* swallows the connection error and goes on to persist the table.
DescribeFail ==
    /\ ppc = "poll" /\ todo # << >> /\ pwrite = "none"
    /\ ppc' = "persist"
    /\ UNCHANGED <<status, persisted, to_restart_failed, to_resume_postjob, n_threads, remote,
                   todo, pwrite, fut, wkind, wpc, attempt, cbseen, lock,
                   catalog, checkpoint, final, logfile, nsub, origin, merges, item_id, rt,
                   temporal_extent, quintads, splitter, polygons, max_points, split_datasets, oj>>

\* A done future of self._futures holds an exception.
SomeFutureRaised == \E r \in Rows : fut[r] = "exc"

\* _clear_queued_actions: no done future holds an exception, the done ones
\* are removed.
ClearQueuedActions ==
    /\ ppc = "poll" /\ todo = << >>
    /\ ~SomeFutureRaised
    /\ fut' = [r \in Rows |-> IF fut[r] = "ok" THEN "none" ELSE fut[r]]
    /\ ppc' = "persist"
    /\ UNCHANGED <<status, persisted, to_restart_failed, to_resume_postjob, n_threads, remote,
                   todo, pwrite, wkind, wpc, attempt, cbseen, lock, catalog,
                   checkpoint, final, logfile, nsub, origin, merges, item_id, rt,
                   temporal_extent, quintads, splitter, polygons, max_points, split_datasets, oj>>

\* _clear_queued_actions: `raise exception`, out of _update_statuses and out
\* of run_jobs.
ClearQueuedRaise ==
    /\ ppc = "poll" /\ todo = << >>
    /\ SomeFutureRaised
    /\ ppc' = "crashed"
    /\ UNCHANGED <<status, persisted, to_restart_failed, to_resume_postjob, n_threads, remote,
                   todo, pwrite, fut, wkind, wpc, attempt, cbseen, lock,
                   catalog, checkpoint, final, logfile, nsub, origin, merges, item_id, rt,
                   temporal_extent, quintads, splitter, polygons, max_points, split_datasets, oj>>

\* The polling loop writes the table file after _update_statuses.
PersistTable ==
    /\ ppc = "persist"
    /\ persisted' = status
    /\ todo' = << >>
    /\ ppc' = IF \E r \in Rows : status[r] = "not_started" THEN "launch"
              ELSE "check"
    /\ UNCHANGED <<status, to_restart_failed, to_resume_postjob, n_threads, remote, pwrite,
                   fut, wkind, wpc, attempt, cbseen, lock, catalog, checkpoint,
                   final, logfile, nsub, origin, merges, item_id, rt,
                   temporal_extent, quintads, splitter, polygons, max_points, split_datasets, oj>>

\* The polling loop starts the not_started rows (within the backend budget):
\* each becomes created or start_failed, and the table file is written.
LaunchJobs ==
    /\ ppc = "launch"
    /\ \E started \in SUBSET {r \in Rows : status[r] = "not_started"} :
         status' = [r \in Rows |->
                      IF status[r] # "not_started" THEN status[r]
                      ELSE IF r \in started THEN "created"
                      ELSE "start_failed"]
    /\ remote' = [r \in Rows |-> IF status'[r] = "created" THEN "queued"
                                 ELSE remote[r]]
    /\ persisted' = status'
    /\ ppc' = "check"
    /\ UNCHANGED <<to_restart_failed, to_resume_postjob, n_threads, todo, pwrite, fut,
                   wkind, wpc, attempt, cbseen, lock, catalog, checkpoint,
                   final, logfile, nsub, origin, merges, item_id, rt,
                   temporal_extent, quintads, splitter, polygons, max_points, split_datasets, oj>>

\* A _wait_queued_actions that waits for the futures and drops their exceptions.
WaitQueuedIgnore ==
    /\ ppc = "wait"
    /\ \A r \in Rows : fut[r] \in {"none", "ok", "exc"}
    /\ ppc' = "shutdown"
    /\ UNCHANGED <<status, persisted, to_restart_failed, to_resume_postjob, n_threads, remote,
                   todo, pwrite, fut, wkind, wpc, attempt, cbseen, lock, catalog, checkpoint,
                   final, logfile, nsub, merges, origin, item_id, rt, temporal_extent,
                   quintads, splitter, polygons, max_points, split_datasets, oj>>

\* _wait_queued_actions: every future resolved without exception.
WaitQueuedActions ==
    /\ ppc = "wait"
    /\ \A r \in Rows : fut[r] \in {"none", "ok"}
    /\ ppc' = "shutdown"
    /\ UNCHANGED <<status, persisted, to_restart_failed, to_resume_postjob, n_threads, remote,
                   todo, pwrite, fut, wkind, wpc, attempt, cbseen, lock,
                   catalog, checkpoint, final, logfile, nsub, origin, merges, item_id, rt,
                   temporal_extent, quintads, splitter, polygons, max_points, split_datasets, oj>>

\* _wait_queued_actions: `raise exception`, out of run_jobs.
WaitQueuedRaise ==
    /\ ppc = "wait"
    /\ SomeFutureRaised
    /\ ppc' = "crashed"
    /\ UNCHANGED <<status, persisted, to_restart_failed, to_resume_postjob, n_threads, remote,
                   todo, pwrite, fut, wkind, wpc, attempt, cbseen, lock,
                   catalog, checkpoint, final, logfile, nsub, origin, merges, item_id, rt,
                   temporal_extent, quintads, splitter, polygons, max_points, split_datasets, oj>>

\* The executor's `with` block ends: shutdown(wait=True) has joined every
\* worker, callbacks included.
ExecutorJoined == \A r \in Rows : wpc[r] = "idle"

\* A run_jobs that saves the collection and returns at the end of a polling
\* cycle, without the wait for the futures and the shutdown of the pool.
WriteStacNoDrain ==
    /\ ppc = "persist"
    /\ final' = Saved(catalog)
    /\ ppc' = "returned"
    /\ UNCHANGED <<status, persisted, to_restart_failed, to_resume_postjob,
                   n_threads, remote, todo, pwrite, fut, wkind, wpc, attempt,
                   cbseen, lock, catalog, checkpoint, logfile, nsub, origin,
                   merges, item_id, rt,
                   temporal_extent, quintads, splitter, polygons, max_points, split_datasets, oj>>

\* The executor's `with` block ends (shutdown joins the workers), then
\* _write_stac saves the collection: run_jobs returns.
WriteStac ==
    /\ ppc = "shutdown"
    /\ ExecutorJoined
    /\ final' = Saved(catalog)
    /\ ppc' = "returned"
    /\ UNCHANGED <<status, persisted, to_restart_failed, to_resume_postjob, n_threads, remote,
                   todo, pwrite, fut, wkind, wpc, attempt, cbseen, lock,
                   catalog, checkpoint, logfile, nsub, origin, merges, item_id, rt,
                   temporal_extent, quintads, splitter, polygons, max_points, split_datasets, oj>>

Next ==
    \/ LoopContinue
    \/ LoopExit
    \/ RestartFailedJobs
    \/ ResumePostjobActions
    \/ BeginPoll
    \/ PollMirror
    \/ PollSubmit
    \/ PollWrite
    \/ DescribeFail
    \/ ClearQueuedActions
    \/ ClearQueuedRaise
    \/ PersistTable
    \/ LaunchJobs
    \/ WaitQueuedActions
    \/ WaitQueuedRaise
    \/ WriteStac
    \/ \E r \in Rows : BackendStep(r)
    \/ \E r \in Rows : DownloadOk(r)
    \/ \E r \in Rows : ItemSkipped(r)
    \/ \E r \in Rows : DownloadFail(r)
    \/ \E r \in Rows : EnterLock(r)
    \/ \E r \in Rows : PersistOk(r)
    \/ \E r \in Rows : PersistFail(r)
    \/ \E r \in Rows : ErrorActionOk(r)
    \/ \E r \in Rows : ErrorActionFail(r)
    \/ \E r \in Rows : CallbackWrite(r)

Spec == Init /\ [][Next]_vars

----------------------------------------------------------------------------
(* run_jobs on a table loaded after a crash, resume_postproc=True and       *)
(* restart_failed=False: every row is in a postprocessing status, already   *)
(* terminal, or running with a job that the backend keeps running.  No row  *)
(* of such a table gets a post-job action from the row loop and none is     *)
(* launched, so those actions are never enabled and are left out of the     *)
(* next-state relation.  The pool has a thread per row: a smaller pool      *)
(* only removes interleavings.                                              *)

InitResume ==
    /\ status \in [1..NRows -> PostprocStatuses
                                  \cup {"finished", "error", "running"}]
    /\ to_restart_failed = FALSE
    /\ to_resume_postjob = TRUE
    /\ n_threads = NRows
    /\ item_id = DistinctIds
    /\ remote = [r \in Rows |-> IF status[r] = "running" THEN "running"
                                ELSE CHOOSE x \in RemoteOf(status[r]) : TRUE]
    /\ InitCommon
    /\ HelpersIdle
    /\ rt = RetryIdle

NextResume ==
    \/ LoopContinue
    \/ LoopExit
    \/ ResumePostjobActions
    \/ BeginPoll
    \/ PollMirror
    \/ DescribeFail
    \/ ClearQueuedActions
    \/ ClearQueuedRaise
    \/ PersistTable
    \/ WaitQueuedActions
    \/ WaitQueuedRaise
    \/ WriteStac
    \/ \E r \in Rows : DownloadOk(r)
    \/ \E r \in Rows : DownloadFail(r)
    \/ \E r \in Rows : EnterLock(r)
    \/ \E r \in Rows : PersistOk(r)
    \/ \E r \in Rows : PersistFail(r)
    \/ \E r \in Rows : ErrorActionOk(r)
    \/ \E r \in Rows : ErrorActionFail(r)
    \/ \E r \in Rows : CallbackWrite(r)

SpecResume == InitResume /\ [][NextResume]_vars

----------------------------------------------------------------------------
(* run_jobs of a fresh manager (empty catalog) on a table whose jobs all    *)
(* ended well and wait for their post-job action.  The item ids are what    *)
(* the backend wrote into the result metadata of each job: nothing of       *)
(* on_job_done derives them from the job id, so two jobs may hold an item   *)
(* of the same id.                                                          *)

InitCatalog ==
    /\ status = [r \in 1..NRows |-> "postprocessing"]
    /\ to_restart_failed = FALSE
    /\ to_resume_postjob = TRUE
    /\ n_threads = DefaultThreads
    /\ item_id \in [Rows -> Rows]
    /\ remote = [r \in Rows |-> "finished"]
    /\ catalog = NoItems
    /\ InitCommon
    /\ HelpersIdle
    /\ rt = RetryIdle

NextCatalog ==
    \/ LoopContinue
    \/ LoopExit
    \/ ResumePostjobActions
    \/ BeginPoll
    \/ ClearQueuedActions
    \/ ClearQueuedRaise
    \/ PersistTable
    \/ WaitQueuedActions
    \/ WaitQueuedRaise
    \/ WriteStac
    \/ \E r \in Rows : DownloadOk(r)
    \/ \E r \in Rows : DownloadFail(r)
    \/ \E r \in Rows : EnterLock(r)
    \/ \E r \in Rows : PersistOk(r)
    \/ \E r \in Rows : PersistFail(r)
    \/ \E r \in Rows : CallbackWrite(r)

SpecCatalog == InitCatalog /\ [][NextCatalog]_vars

\* The (remote_job_id, asset_name) pairs with item id i that on_job_done has
\* merged into the catalog.
MergedPairs(i) == {r \in Rows : item_id[r] = i /\ merges[r] >= 1}

\* C1: whatever on_job_done invocations have run against the catalog
\* (replayed ones included), the catalog holds exactly one item for every
\* (remote_job_id, asset_name) pair merged so far.
C1_OneItemPerPair ==
    \A i \in Rows : catalog[i] = Cardinality(MergedPairs(i))

\* on_job_done of the row's job has returned without exception.
OnJobDoneReturned(r) ==
    \/ wkind[r] = "done" /\ wpc[r] = "cb_ok"
    \/ status[r] = "finished"

\* C2: with on_job_done running in one worker thread per job, each job
\* yielding an item of its own id, at most one worker is inside the
\* insert-and-checkpoint section at a time, the catalog holds exactly one
\* item for every job whose on_job_done returned, and so does the checkpoint
\* file unless a checkpoint write itself failed half-way.
C2_NoItemLost ==
    /\ Cardinality({r \in Rows : wpc[r] = "writing"}) <= 1
    /\ \A i \in Rows : catalog[i] <= 1
    /\ \A r \in Rows : OnJobDoneReturned(r) => catalog[item_id[r]] = 1
    /\ checkpoint.state # "torn" =>
         \A r \in Rows : OnJobDoneReturned(r) =>
            /\ checkpoint.state = "complete"
            /\ checkpoint.items[item_id[r]] = 1

\* N = NRows jobs were resumed together, their on_job_done ran side by side
\* and all have just returned: catalog and checkpoint hold the N items.
C2_Witness ==
    /\ n_threads = NRows
    /\ \A r \in Rows : wkind[r] = "done" /\ wpc[r] = "cb_ok" /\ nsub[r] = 1
    /\ \A i \in Rows : catalog[i] = 1
    /\ checkpoint = Saved(catalog)

\* C6: the resume step submits every row found in postprocessing or
\* postprocessing-error exactly once (on_job_done for the former,
\* on_job_error for the latter) with a worker that ends in the completion
\* callback; no row is ever submitted a second time by a later polling
\* cycle, and a row in another status is not submitted.
C6_ResumedOnce ==
    /\ \A r \in Rows : nsub[r] <= 1
    /\ to_resume_postjob => \A r \in Rows : nsub[r] = 0
    /\ ~to_resume_postjob =>
         \A r \in Rows :
            /\ status[r] = "postprocessing" =>
                 nsub[r] = 1 /\ wkind[r] = "done" /\ wpc[r] # "idle"
            /\ status[r] = "postprocessing-error" =>
                 nsub[r] = 1 /\ wkind[r] = "error" /\ wpc[r] # "idle"
    /\ \A r \in Rows : wkind[r] # "none" => status[r] \in PostprocStatuses
    /\ \A r \in Rows : status[r] = "running" => nsub[r] = 0

\* A polling cycle that follows the resume step has iterated the rows while
\* a resumed row of each kind still is in its post-job action, next to a
\* running row that was not submitted.
C6_Witness ==
    /\ ppc = "persist" /\ todo = << >>
    /\ status[1] = "running" /\ nsub[1] = 0
    /\ \E r \in Rows : status[r] \in PostprocStatuses /\ nsub[r] = 1
                        /\ origin[r] = "resumed"

----------------------------------------------------------------------------
(* The startup pass: run_jobs up to the point where the first call of       *)
(* _update_statuses has done its recovery steps and selects the active      *)
(* rows, for every table and both flags; the workers of resumed rows run    *)
(* next to it.                                                              *)

NextStartup ==
    \/ LoopContinue
    \/ LoopExit
    \/ RestartFailedJobs
    \/ ResumePostjobActions
    \/ BeginPoll
    \/ WaitQueuedActions
    \/ WriteStac
    \/ \E r \in Rows : DownloadOk(r)
    \/ \E r \in Rows : DownloadFail(r)
    \/ \E r \in Rows : EnterLock(r)
    \/ \E r \in Rows : PersistOk(r)
    \/ \E r \in Rows : PersistFail(r)
    \/ \E r \in Rows : ErrorActionOk(r)
    \/ \E r \in Rows : ErrorActionFail(r)
    \/ \E r \in Rows : CallbackWrite(r)

SpecStartup == Init /\ [][NextStartup]_vars

\* C7: the step that consumes restart_failed=True sets every row in error or
\* start_failed to not_started and leaves every other row, the not_started
\* ones included, as it was; no other step of the startup pass moves a row
\* to not_started.
C7_RestartFailed ==
    [][/\ (to_restart_failed /\ ~to_restart_failed') =>
            \A r \in Rows :
                status'[r] = IF status[r] \in {"error", "start_failed"}
                             THEN "not_started" ELSE status[r]
       /\ ~(to_restart_failed /\ ~to_restart_failed') =>
            \A r \in Rows :
                status'[r] = "not_started" => status[r] = "not_started"]_vars

\* The restart step has just run on a table that held a start_failed row
\* next to a row in another status.
C7_Witness ==
    /\ ppc = "start" /\ ~to_restart_failed
    /\ \E r \in Rows :
          /\ persisted[r] = "start_failed"
          /\ status[r] = "not_started" /\ origin[r] = "restarted"
    /\ \E r \in Rows : persisted[r] = "running" /\ status[r] = "running"

----------------------------------------------------------------------------
(* Claims checked on the whole manager, Spec *)

\* The step of _update_statuses that applies restart_failed.
RestartStep == to_restart_failed /\ ~to_restart_failed'

\* C3: once the status of a row is finished or error, no step other than
\* the restart of failed rows changes it, neither a polling cycle nor a
\* completion callback.
C3_TerminalStable ==
    [][\A r \in Rows :
          (status[r] \in {"finished", "error"} /\ ~RestartStep)
             => status'[r] = status[r]]_vars

\* C4: when _update_statuses is over, every active row of the cycle has been
\* iterated, except at most the one row whose describe_job failed.
C4_CycleNotAborted ==
    ppc = "persist" => Len(todo) <= 1

\* C8: a future that runs on_job_error never holds an exception.
C8_ErrorActionNeverRaises ==
    \A r \in Rows : wkind[r] = "error" => fut[r] # "exc"

\* C9: when run_jobs returns, the table file holds the status of every row as
\* last written in memory.
C9_PersistedAtReturn ==
    ppc = "returned" => persisted = status

----------------------------------------------------------------------------
(* Polling cycles over a table of started jobs, default pool, no startup    *)
(* recovery.  The jobs of the first two rows                                *)
(* have ended (finished or error) or are kept running by the backend, the   *)
(* jobs of all further rows are kept running.                               *)

\* The rows whose job may have ended.
EndedRows == {1, 2}

InitPoll ==
    /\ status = [r \in 1..NRows |-> "running"]
    /\ to_restart_failed = FALSE
    /\ to_resume_postjob = FALSE
    /\ n_threads = DefaultThreads
    /\ item_id = DistinctIds
    /\ remote \in [Rows -> {"running", "finished", "error"}]
    /\ \A r \in Rows \ EndedRows : remote[r] = "running"
    /\ InitCommon
    /\ HelpersIdle
    /\ rt = RetryIdle

NextPoll ==
    \/ LoopContinue
    \/ LoopExit
    \/ BeginPoll
    \/ PollMirror
    \/ PollSubmit
    \/ PollWrite
    \/ DescribeFail
    \/ ClearQueuedActions
    \/ ClearQueuedRaise
    \/ PersistTable
    \/ WaitQueuedActions
    \/ WaitQueuedRaise
    \/ WriteStac
    \/ \E r \in Rows : DownloadOk(r)
    \/ \E r \in Rows : DownloadFail(r)
    \/ \E r \in Rows : EnterLock(r)
    \/ \E r \in Rows : PersistOk(r)
    \/ \E r \in Rows : PersistFail(r)
    \/ \E r \in Rows : ErrorActionOk(r)
    \/ \E r \in Rows : ErrorActionFail(r)
    \/ \E r \in Rows : CallbackWrite(r)

SpecPoll == InitPoll /\ [][NextPoll]_vars

\* The steps of the polling thread (the thread that called run_jobs) when
\* no call to the backend fails and no future holds an exception.
PollerStep ==
    \/ LoopContinue
    \/ LoopExit
    \/ BeginPoll
    \/ PollMirror
    \/ PollSubmit
    \/ PollWrite
    \/ ClearQueuedActions
    \/ PersistTable
    \/ WaitQueuedActions
    \/ WriteStac

\* The steps of the worker thread that runs the post-job action of row r
\* and then its completion callback, when the action does not raise.
WorkerStep(r) ==
    \/ DownloadOk(r)
    \/ EnterLock(r)
    \/ PersistOk(r)
    \/ ErrorActionOk(r)
    \/ CallbackWrite(r)

NextPollFair ==
    \/ LoopContinue
    \/ LoopExit
    \/ BeginPoll
    \/ PollMirror
    \/ PollSubmit
    \/ PollWrite
    \/ ClearQueuedActions
    \/ PersistTable
    \/ WaitQueuedActions
    \/ WriteStac
    \/ \E r \in Rows : DownloadOk(r)
    \/ \E r \in Rows : EnterLock(r)
    \/ \E r \in Rows : PersistOk(r)
    \/ \E r \in Rows : ErrorActionOk(r)
    \/ \E r \in Rows : CallbackWrite(r)

\* Fair scheduling: a thread that can take a step is not held back for
\* ever, and a post-job action that is running comes to its end.
FairThreads ==
    /\ WF_vars(PollerStep)
    /\ \A r \in 1..NRows : WF_vars(WorkerStep(r))

SpecPollFair == InitPoll /\ [][NextPollFair]_vars /\ FairThreads

----------------------------------------------------------------------------
(* The scenario of three started jobs: the backend reports the first        *)
(* finished, the second error and keeps the third running; no post-job      *)
(* action fails.  One call of _update_statuses, then the outstanding        *)
(* futures are drained and the pool is shut down.                           *)

InitScenario ==
    /\ status = <<"running", "running", "running">>
    /\ to_restart_failed = FALSE
    /\ to_resume_postjob = FALSE
    /\ n_threads = DefaultThreads
    /\ item_id = DistinctIds
    /\ remote = <<"finished", "error", "running">>
    /\ InitCommon
    /\ HelpersIdle
    /\ rt = RetryIdle

\* The scenario goes from the end of its polling cycle to the drain.
ScenarioDrain ==
    /\ ppc = "persist"
    /\ ppc' = "wait"
    /\ UNCHANGED <<status, persisted, to_restart_failed, to_resume_postjob,
                   n_threads, remote, todo, pwrite, fut, wkind, wpc, attempt,
                   cbseen, lock, catalog, checkpoint, final, logfile, nsub,
                   origin, merges, item_id, rt,
                   temporal_extent, quintads, splitter, polygons, max_points, split_datasets, oj>>

NextScenario ==
    \/ LoopContinue
    \/ BeginPoll
    \/ PollMirror
    \/ PollSubmit
    \/ PollWrite
    \/ ClearQueuedActions
    \/ ScenarioDrain
    \/ WaitQueuedActions
    \/ \E r \in Rows : DownloadOk(r)
    \/ \E r \in Rows : EnterLock(r)
    \/ \E r \in Rows : PersistOk(r)
    \/ \E r \in Rows : ErrorActionOk(r)
    \/ \E r \in Rows : CallbackWrite(r)

SpecScenario == InitScenario /\ [][NextScenario]_vars

\* The futures are drained and every worker has left its callback.
Drained == ppc = "shutdown" /\ \A r \in Rows : wpc[r] = "idle"

\* C10: after the polling cycle and the drain, row 1 is finished with its one
\* item in the catalog, row 2 is error with its log file written, and row 3
\* is running.
C10_Scenario ==
    Drained =>
        /\ status = <<"finished", "error", "running">>
        /\ catalog = <<1, 0, 0>>
        /\ logfile[2] # "none" /\ logfile[1] = "none" /\ logfile[3] = "none"

----------------------------------------------------------------------------
(* retry_on_exception, one call of the wrapper followed on its own *)

\* Largest max_retries drawn for the wrapper.
MaxBudget == 5

\* delay_s of the two wrapped post-job actions.
ErrorDelay == 180
DoneDelay == 30

\* A call wrapper(*args) with max_retries = n and delay_s = d begins.
RetryCall(n, d) == [state |-> "loop", n |-> n, d |-> d, calls |-> 0,
                    sleeps |-> << >>, latest |-> 0, result |-> 0]

RetrySlotsOneMore(n, calls) == calls <= n

\* for _ in range(max_retries): the loop has an iteration left.
RetrySlots(n, calls) == calls < n

\* return func(*args, **kwargs): the invocation returns; its value is named
\* by the number of the invocation.
RetryInvokeOk ==
    /\ rt.state = "loop" /\ RetrySlots(rt.n, rt.calls)
    /\ rt' = [rt EXCEPT !.calls = @ + 1, !.state = "returned",
                        !.result = rt.calls + 1]
    /\ UNCHANGED <<status, persisted, to_restart_failed, to_resume_postjob,
                   n_threads, remote, ppc, todo, pwrite, fut, wkind, wpc,
                   attempt, cbseen, lock, catalog, checkpoint, final,
                   logfile, nsub, merges, origin, item_id,
                   temporal_extent, quintads, splitter, polygons, max_points, split_datasets, oj>>

\* func raises an Exception, named by the number of the invocation; the
\* except clause is entered.
RetryInvokeRaise ==
    /\ rt.state = "loop" /\ RetrySlots(rt.n, rt.calls)
    /\ rt' = [rt EXCEPT !.calls = @ + 1, !.state = "except"]
    /\ UNCHANGED <<status, persisted, to_restart_failed, to_resume_postjob,
                   n_threads, remote, ppc, todo, pwrite, fut, wkind, wpc,
                   attempt, cbseen, lock, catalog, checkpoint, final,
                   logfile, nsub, merges, origin, item_id,
                   temporal_extent, quintads, splitter, polygons, max_points, split_datasets, oj>>

\* time.sleep(delay_s); latest_exception = e
RetrySleep ==
    /\ rt.state = "except"
    /\ rt' = [rt EXCEPT !.sleeps = Append(@, rt.d), !.latest = rt.calls,
                        !.state = "loop"]
    /\ UNCHANGED <<status, persisted, to_restart_failed, to_resume_postjob,
                   n_threads, remote, ppc, todo, pwrite, fut, wkind, wpc,
                   attempt, cbseen, lock, catalog, checkpoint, final,
                   logfile, nsub, merges, origin, item_id,
                   temporal_extent, quintads, splitter, polygons, max_points, split_datasets, oj>>

\* raise latest_exception, once the loop is exhausted.
RetryExhausted ==
    /\ rt.state = "loop" /\ ~RetrySlots(rt.n, rt.calls)
    /\ rt' = [rt EXCEPT !.state = "raised", !.result = rt.latest]
    /\ UNCHANGED <<status, persisted, to_restart_failed, to_resume_postjob,
                   n_threads, remote, ppc, todo, pwrite, fut, wkind, wpc,
                   attempt, cbseen, lock, catalog, checkpoint, final,
                   logfile, nsub, merges, origin, item_id,
                   temporal_extent, quintads, splitter, polygons, max_points, split_datasets, oj>>

\* No manager runs: its table is constructed with every row finished.
ManagerAtRest ==
    /\ status = [r \in 1..NRows |-> "finished"]
    /\ to_restart_failed = FALSE
    /\ to_resume_postjob = FALSE
    /\ n_threads = DefaultThreads
    /\ item_id = DistinctIds
    /\ remote = [r \in Rows |-> "finished"]
    /\ InitCommon
    /\ catalog = [r \in Rows |-> 1]

InitRetry ==
    /\ ManagerAtRest
    /\ HelpersIdle
    /\ \E n \in 1..MaxBudget, d \in {DoneDelay, ErrorDelay} : rt = RetryCall(n, d)

NextRetry ==
    \/ RetryInvokeOk
    \/ RetryInvokeRaise
    \/ RetrySleep
    \/ RetryExhausted

SpecRetry == InitRetry /\ [][NextRetry]_vars

----------------------------------------------------------------------------
(* Resumed jobs whose result metadata may fail to correlate *)

NextItems ==
    \/ NextResume
    \/ \E r \in Rows : ItemSkipped(r)

SpecItems == InitResume /\ [][NextItems]_vars

----------------------------------------------------------------------------
(* quintad_intervals                                                       *)
(* A date string "YYYY-mm-dd" is the tuple <<y, m, d>>; a datetime is the   *)
(* number of its day, counted from the first day of FirstYear; a timedelta  *)
(* of k days is the integer k.                                              *)

\* Years of the extents drawn (a common year and a leap year), and the
\* longest extent drawn, in days after its start.
FirstYear == 2023
LastYear == 2024
MaxSpan == 35

\* The code computes dates up to 4 days after the extent: the calendar has
\* one more year.
CalendarYears == FirstYear..(LastYear + 1)

IsLeap(y) == (y % 4 = 0 /\ y % 100 # 0) \/ y % 400 = 0

DaysInMonth(y, m) ==
    IF m = 2 THEN (IF IsLeap(y) THEN 29 ELSE 28)
    ELSE IF m \in {4, 6, 9, 11} THEN 30 ELSE 31

DaysInYear(y) == IF IsLeap(y) THEN 366 ELSE 365

RECURSIVE DaysBeforeYear(_)
DaysBeforeYear(y) ==
    IF y <= FirstYear THEN 0 ELSE DaysBeforeYear(y - 1) + DaysInYear(y - 1)

\* Days of a common year before the first of each month.
DaysBeforeMonthCommon == <<0, 31, 59, 90, 120, 151, 181, 212, 243, 273, 304, 334>>

DaysBeforeMonth(y, m) ==
    DaysBeforeMonthCommon[m] + (IF m > 2 /\ IsLeap(y) THEN 1 ELSE 0)

\* datetime.strptime(s, "%Y-%m-%d")
strptime(s) == DaysBeforeYear(s[1]) + DaysBeforeMonth(s[1], s[2]) + s[3]

\* dt.strftime("%Y-%m-%d")
strftime(dt) ==
    LET y == CHOOSE yy \in CalendarYears :
                 DaysBeforeYear(yy) < dt /\ dt <= DaysBeforeYear(yy) + DaysInYear(yy)
        r == dt - DaysBeforeYear(y)
        m == CHOOSE mm \in 1..12 :
                 DaysBeforeMonth(y, mm) < r
                 /\ r <= DaysBeforeMonth(y, mm) + DaysInMonth(y, mm)
    IN  <<y, m, r - DaysBeforeMonth(y, m)>>

\* dt.day
DayOf(dt) == strftime(dt)[3]

\* dt.replace(day=d)
ReplaceDay(dt, d) == strptime(<<strftime(dt)[1], strftime(dt)[2], d>>)

\* last_day = current_date.replace(day=28) + timedelta(days=4)
\* last_day = last_day - timedelta(days=last_day.day)
LastDayOfMonth(current_date) ==
    LET last_day == ReplaceDay(current_date, 28) + 4
    IN  last_day - DayOf(last_day)

ClipToExtentOnly(last_quintad, last_day, end_date) ==
    IF last_quintad > end_date THEN end_date ELSE last_quintad

\* if last_quintad > last_day: ... elif last_quintad > end_date: ...
Clip(last_quintad, last_day, end_date) ==
    IF last_quintad > last_day THEN last_day
    ELSE IF last_quintad > end_date THEN end_date
    ELSE last_quintad

\* The last day of the quintad that starts on current_date.
LastQuintad(current_date, end_date) ==
    LET last_day == LastDayOfMonth(current_date)
        plus4 == current_date + 4
        last_quintad == IF DayOf(plus4) = 30 /\ DayOf(last_day) = 31
                        THEN plus4 + 1 ELSE plus4
    IN  Clip(last_quintad, last_day, end_date)

\* while current_date <= end_date: ... quintads.append(...)
RECURSIVE QuintadLoop(_, _, _)
QuintadLoop(current_date, end_date, acc) ==
    IF current_date <= end_date
    THEN LET last_quintad == LastQuintad(current_date, end_date)
         IN  QuintadLoop(last_quintad + 1, end_date,
                         Append(acc, <<current_date, last_quintad>>))
    ELSE acc

quintad_intervals(extent) ==
    LET start_date == strptime(extent[1])
        end_date == strptime(extent[2])
        offset == IF DayOf(start_date) # 1
                  THEN DayOf(start_date - 1) % 5 ELSE 0
        looped == QuintadLoop(start_date - offset, end_date, << >>)
        fixed == [looped EXCEPT ![1] = <<looped[1][1] + offset, looped[1][2]>>]
    IN  [i \in 1..Len(fixed) |-> <<strftime(fixed[i][1]), strftime(fixed[i][2])>>]

\* The days of the years drawn; an extent starts on any of them and ends at
\* most MaxSpan days later, or is a full year.
Days == 1..DaysBeforeYear(LastYear + 1)

InitIntervals ==
    /\ ManagerAtRest
    /\ rt = RetryIdle
    /\ \/ \E a \in Days, k \in 0..MaxSpan :
             /\ a + k \in Days
             /\ temporal_extent = <<strftime(a), strftime(a + k)>>
       \/ \E y \in FirstYear..LastYear :
             temporal_extent = <<<<y, 1, 1>>, <<y, 12, 31>>>>
    /\ quintads = << >>
    /\ splitter = "none"
    /\ polygons = << >>
    /\ max_points = 0
    /\ split_datasets = << >>
    /\ oj = OjIdle

CallQuintadIntervals ==
    /\ quintads = << >>
    /\ quintads' = quintad_intervals(temporal_extent)
    /\ UNCHANGED <<status, persisted, to_restart_failed, to_resume_postjob,
                   n_threads, remote, ppc, todo, pwrite, fut, wkind, wpc,
                   attempt, cbseen, lock, catalog, checkpoint, final,
                   logfile, nsub, merges, origin, item_id, rt,
                   temporal_extent, splitter, polygons, max_points,
                   split_datasets, oj>>

SpecIntervals == InitIntervals /\ [][CallQuintadIntervals]_vars

----------------------------------------------------------------------------
(* The job splitters                                                        *)
(* A row of the input GeoDataFrame is the position of its centroid on a     *)
(* line; the centroid of S2 tile t lies at position 2 * t, and H3 cell c    *)
(* covers the positions 2 * c and 2 * c + 1.                                *)

\* Largest centroid position, number of input rows and max_points drawn.
MaxPos == 2
MaxPolygons == 4
MaxMaxPoints == 2

Tiles == 0..((MaxPos + 1) \div 2)

TileCentroid(t) == 2 * t

Distance(a, b) == IF a >= b THEN a - b ELSE b - a

\* The tiles whose centroid is at the least distance of position pos.
NearestTiles(pos) ==
    {t \in Tiles : \A u \in Tiles :
        Distance(pos, TileCentroid(t)) <= Distance(pos, TileCentroid(u))}

\* h3.latlng_to_cell
H3Cell(pos) == pos \div 2

\* The elements of a set of numbers, ascending.
RECURSIVE Ascending(_)
Ascending(S) ==
    IF S = {} THEN << >>
    ELSE LET lo == CHOOSE x \in S : \A y \in S : x <= y
         IN  <<lo>> \o Ascending(S \ {lo})

\* gpd.sjoin_nearest(polygons, s2_grid): one joined row per input row and
\* nearest tile, in the order of the input rows; an input row with several
\* equidistant nearest tiles yields one joined row for each.
RECURSIVE sjoin_nearest(_, _)
sjoin_nearest(rows, i) ==
    IF i > Len(rows) THEN << >>
    ELSE LET tiles == Ascending(NearestTiles(rows[i]))
         IN  [j \in 1..Len(tiles) |-> [id |-> i, key |-> tiles[j]]]
             \o sjoin_nearest(rows, i + 1)

\* append_h3_index: each row gets the cell of its centroid.
append_h3_index(rows) ==
    [i \in 1..Len(rows) |-> [id |-> i, key |-> H3Cell(rows[i])]]

\* _resplit_group: polygons.iloc[i : i + max_points] for i in
\* range(0, len(polygons), max_points)
RECURSIVE _resplit_group(_, _, _)
_resplit_group(group, i, n) ==
    IF i > Len(group) THEN << >>
    ELSE LET last == IF i + n - 1 < Len(group) THEN i + n - 1 ELSE Len(group)
         IN  <<SubSeq(group, i, last)>> \o _resplit_group(group, i + n, n)

\* for _, sub_gdf in polygons.groupby(key): the groups in ascending key
\* order, each with its rows in table order, re-split when too long.
RECURSIVE SplitGroups(_, _, _)
SplitGroups(joined, keys, n) ==
    IF keys = << >> THEN << >>
    ELSE LET sub_gdf == SelectSeq(joined, LAMBDA row : row.key = Head(keys))
         IN  (IF Len(sub_gdf) > n
              THEN _resplit_group(sub_gdf, 1, n)
              ELSE <<sub_gdf>>)
             \o SplitGroups(joined, Tail(keys), n)

KeysOf(joined) == Ascending({joined[i].key : i \in 1..Len(joined)})

split_job_s2grid(rows, n) ==
    LET joined == sjoin_nearest(rows, 1)
    IN  SplitGroups(joined, KeysOf(joined), n)

split_job_hex(rows, n) ==
    LET joined == append_h3_index(rows)
    IN  SplitGroups(joined, KeysOf(joined), n)

InitSplit ==
    /\ ManagerAtRest
    /\ rt = RetryIdle
    /\ temporal_extent = << >>
    /\ quintads = << >>
    /\ splitter \in {"s2grid", "hex"}
    /\ polygons \in UNION {[1..n -> 0..MaxPos] : n \in 1..MaxPolygons}
    /\ max_points \in 1..MaxMaxPoints
    /\ split_datasets = << >>
    /\ oj = OjIdle

CallSplitJobS2Grid ==
    /\ splitter = "s2grid" /\ split_datasets = << >>
    /\ split_datasets' = split_job_s2grid(polygons, max_points)
    /\ UNCHANGED <<status, persisted, to_restart_failed, to_resume_postjob,
                   n_threads, remote, ppc, todo, pwrite, fut, wkind, wpc,
                   attempt, cbseen, lock, catalog, checkpoint, final,
                   logfile, nsub, merges, origin, item_id, rt,
                   temporal_extent, quintads, splitter, polygons, max_points, oj>>

CallSplitJobHex ==
    /\ splitter = "hex" /\ split_datasets = << >>
    /\ split_datasets' = split_job_hex(polygons, max_points)
    /\ UNCHANGED <<status, persisted, to_restart_failed, to_resume_postjob,
                   n_threads, remote, ppc, todo, pwrite, fut, wkind, wpc,
                   attempt, cbseen, lock, catalog, checkpoint, final,
                   logfile, nsub, merges, origin, item_id, rt,
                   temporal_extent, quintads, splitter, polygons, max_points, oj>>

NextSplit ==
    \/ CallSplitJobS2Grid
    \/ CallSplitJobHex

SpecSplit == InitSplit /\ [][NextSplit]_vars

----------------------------------------------------------------------------
(* Claims on the end of run_jobs and on retry_on_exception *)

\* C11: the final catalog is written only when run_jobs has left the polling
\* loop and the executor: before that there is no final catalog, and when it
\* is written every future has resolved, no worker is in a post-job action
\* or in a callback, and the written catalog is the catalog in memory.
C11_FinalWriteAfterDrain ==
    /\ ppc # "returned" => final = NoFile
    /\ ppc = "returned" =>
         /\ final = Saved(catalog)
         /\ \A r \in Rows : wpc[r] = "idle" /\ fut[r] \in {"none", "ok"}
         /\ \A r \in Rows : status[r] \in TerminalStatuses

\* run_jobs has returned after a resumed on_job_done merged its item, which
\* is in the final catalog.
C11_Witness ==
    /\ ppc = "returned"
    /\ \E r \in Rows :
          /\ origin[r] = "resumed" /\ status[r] = "finished"
          /\ final.state = "complete" /\ final.items[item_id[r]] = 1

C13_MismatchRaises ==
    \A r \in Rows :
        (wkind[r] = "done" /\ wpc[r] = "cb_ok") => catalog[item_id[r]] >= 1

\* C14: the list returned for an extent with start_date <= end_date covers
\* the extent exactly: the first interval starts on start_date, the last
\* ends on end_date, no interval ends before it starts, and each interval
\* starts on the day after the previous one ends.
C14_ExactCover ==
    quintads # << >> =>
        /\ quintads[1][1] = temporal_extent[1]
        /\ quintads[Len(quintads)][2] = temporal_extent[2]
        /\ \A i \in 1..Len(quintads) :
              strptime(quintads[i][1]) <= strptime(quintads[i][2])
        /\ \A i \in 2..Len(quintads) :
              strptime(quintads[i][1]) = strptime(quintads[i - 1][2]) + 1

\* The months that lie wholly inside the extent.
FullMonths ==
    {ym \in (FirstYear..LastYear) \X (1..12) :
        /\ strptime(temporal_extent[1]) <= strptime(<<ym[1], ym[2], 1>>)
        /\ strptime(<<ym[1], ym[2], DaysInMonth(ym[1], ym[2])>>)
              <= strptime(temporal_extent[2])}

\* The intervals returned that start in month ym, as pairs of days.
QuintadsOf(ym) ==
    {<<quintads[i][1][3], quintads[i][2][3]>> :
        i \in {j \in 1..Len(quintads) :
                 quintads[j][1][1] = ym[1] /\ quintads[j][1][2] = ym[2]}}

\* C15: no interval returned spans two months, every month wholly inside
\* the extent is cut into the six intervals 1-5, 6-10, 11-15, 16-20, 21-25
\* and 26-end of month, and a full year yields 72 intervals.
C15_SixPerMonth ==
    quintads # << >> =>
        /\ \A i \in 1..Len(quintads) :
              /\ quintads[i][1][1] = quintads[i][2][1]
              /\ quintads[i][1][2] = quintads[i][2][2]
        /\ \A ym \in FullMonths :
              /\ QuintadsOf(ym) = {<<1, 5>>, <<6, 10>>, <<11, 15>>, <<16, 20>>,
                                   <<21, 25>>, <<26, DaysInMonth(ym[1], ym[2])>>}
              /\ Cardinality({j \in 1..Len(quintads) :
                    quintads[j][1][1] = ym[1] /\ quintads[j][1][2] = ym[2]}) = 6
        /\ Cardinality(FullMonths) = 12 => Len(quintads) = 72

\* The leap year was cut into 72 intervals, the last of February ending on
\* the 29th.
C15_Witness ==
    /\ temporal_extent = <<<<LastYear, 1, 1>>, <<LastYear, 12, 31>>>>
    /\ Len(quintads) = 72
    /\ quintads[12] = <<<<LastYear, 2, 26>>, <<LastYear, 2, 29>>>>

\* The places (group, position) where input row i occurs in the result.
PlacesOf(i) ==
    {gj \in (1..Len(split_datasets)) \X (1..MaxMaxPoints) :
        /\ gj[2] <= Len(split_datasets[gj[1]])
        /\ split_datasets[gj[1]][gj[2]].id = i}

\* The groups of the result that belong to tile or hexagon key.
GroupsOf(key) ==
    SelectSeq(split_datasets, LAMBDA group : group[1].key = key)

\* The number of rows in a sequence of groups.
RECURSIVE RowCount(_)
RowCount(groups) ==
    IF groups = << >> THEN 0 ELSE Len(Head(groups)) + RowCount(Tail(groups))

\* C16: the groups returned by a splitter partition the input rows: no
\* group is empty or longer than max_points, the rows of a group share one
\* tile or hexagon, every input row occurs in exactly one place, and a tile
\* or hexagon of k > max_points rows is cut into ceil(k / max_points)
\* consecutive chunks, all full but the last.
C16_Partition ==
    split_datasets # << >> =>
        /\ \A g \in 1..Len(split_datasets) :
              /\ Len(split_datasets[g]) \in 1..max_points
              /\ \A j \in 1..Len(split_datasets[g]) :
                    split_datasets[g][j].key = split_datasets[g][1].key
        /\ \A i \in 1..Len(polygons) : Cardinality(PlacesOf(i)) = 1
        /\ \A key \in 0..MaxPos :
              LET groups == GroupsOf(key)
                  k == RowCount(groups)
              IN  /\ Len(groups) = (k + max_points - 1) \div max_points
                  /\ \A g \in 1..(Len(groups) - 1) :
                        /\ Len(groups[g]) = max_points
                        /\ groups[g][max_points].id <= groups[g + 1][1].id

\* C17: under fair scheduling every row in postprocessing or
\* postprocessing-error eventually reaches finished or error.
C17_PostprocessingEnds ==
    \A r \in 1..NRows :
        (status[r] \in PostprocStatuses) ~> (status[r] \in {"finished", "error"})

\* C18: over polling cycles without restart or resume, where the job of a
\* row ends once, at most one post-job action is ever submitted for the
\* row: none in the cycle that moved it to postprocessing besides the one,
\* and none in a later cycle.
C18_SubmittedOnce ==
    \A r \in Rows : nsub[r] <= 1

\* C19: done_callback never runs besides the polling thread: no callback
\* of a row is under way (status read, result not yet stored) while the
\* polling thread is inside its iteration of that row, between the submit
\* and the store of job_status.
C19_CallbackOnPollingThread ==
    \A r \in Rows :
        wpc[r] \in {"cb_ok", "cb_exc"} =>
            ~(ppc = "poll" /\ pwrite # "none" /\ Head(todo) = r)

\* done_callback of row r runs from its read of the status to its store.
CallbackOf(r) == wpc[r] \in {"cb_ok", "cb_exc"} /\ wpc'[r] = "idle"

\* C20: done_callback turns the status it read, postprocessing, into
\* finished and postprocessing-error into error when the future holds no
\* exception, and stores error whatever it read when the future holds one;
\* it changes the status of no other row, and nothing else of the table,
\* the catalog or the files.
C20_CallbackMapping ==
    [][\A r \in Rows : CallbackOf(r) =>
          /\ (wpc[r] = "cb_ok" /\ cbseen[r] = "postprocessing")
                => status'[r] = "finished"
          /\ (wpc[r] = "cb_ok" /\ cbseen[r] = "postprocessing-error")
                => status'[r] = "error"
          /\ wpc[r] = "cb_exc" => status'[r] = "error"
          /\ \A q \in Rows \ {r} : status'[q] = status[q]
          /\ UNCHANGED <<persisted, item_id, remote, catalog, checkpoint,
                         final, logfile, fut>>]_vars

\* Callbacks have run on both paths: one row was taken from postprocessing
\* to finished, another was set to error for the exception of its future.
C20_Witness ==
    \E r, q \in Rows :
        /\ fut[r] = "ok" /\ wpc[r] = "idle" /\ status[r] = "finished"
        /\ fut[q] = "exc" /\ wpc[q] = "idle" /\ status[q] = "error"

----------------------------------------------------------------------------
(* Claims on the writers of the table, the lock and the files *)

\* The polling thread stores job_status for row r, the row it iterates.
PollerStores(r) ==
    ppc = "poll" /\ todo # << >> /\ Head(todo) = r /\ todo' = Tail(todo)

\* C21: a step that takes a row to finished or error is the completion
\* callback of that row, never a step of the polling code; and when the
\* polling thread stores the status of a row whose job the backend reports
\* finished or error, it stores postprocessing or postprocessing-error.
C21_CallbackOnlyTerminalWriter ==
    [][\A r \in Rows :
          /\ (status'[r] \in {"finished", "error"} /\ status'[r] # status[r])
                => CallbackOf(r)
          /\ (PollerStores(r) /\ remote[r] = "finished")
                => status'[r] = "postprocessing"
          /\ (PollerStores(r) /\ remote[r] = "error")
                => status'[r] = "postprocessing-error"]_vars

\* One cycle recorded both ended jobs as postprocessing and
\* postprocessing-error, and the callback of the first has since written
\* finished.
C21_Witness ==
    \E r, q \in Rows :
        /\ remote[r] = "finished" /\ nsub[r] = 1 /\ status[r] = "finished"
        /\ remote[q] = "error" /\ nsub[q] = 1
        /\ status[q] = "postprocessing-error"

\* C22: the lock is held by worker r exactly while r is between its entry
\* into `with lock:` and the end of the checkpoint write, so by one worker
\* at most and by none once the action returned or raised; and every step
\* that changes the catalog or the checkpoint file is a step of the worker
\* that takes, or holds, the lock.
C22_MutationUnderLock ==
    /\ [](\A r \in Rows : (lock = r) <=> (wpc[r] = "writing"))
    /\ [][(catalog' # catalog \/ checkpoint' # checkpoint) =>
             \E r \in Rows :
                \/ lock = 0 /\ lock' = r /\ wpc'[r] = "writing"
                \/ lock = r /\ wpc[r] = "writing" /\ lock' = 0]_vars

\* A checkpoint write failed half-way and the exception left on_job_done
\* for good: the lock is free and another worker is inside the section.
C22_Witness ==
    \E r, q \in Rows :
        /\ wkind[r] = "done" /\ wpc[r] = "cb_exc" /\ checkpoint.state = "torn"
        /\ lock = q /\ q # r /\ wpc[q] = "writing"

(***************************************************************************)
(* One attempt of on_job_done, statement by statement.  The job has        *)
(* `assets` assets to download and its result metadata lists the items     *)
(* `meta`; `root` is the item-id set of the root collection and `pickle`   *)
(* the item-id set last written to the checkpoint file.                    *)
(***************************************************************************)
MaxAssets == 2
MaxItems == 2

ItemIds == 1..MaxItems

InitOnJobDone ==
    /\ ManagerAtRest
    /\ rt = RetryIdle
    /\ temporal_extent = << >>
    /\ quintads = << >>
    /\ splitter = "none"
    /\ polygons = << >>
    /\ max_points = 0
    /\ split_datasets = << >>
    /\ \E n \in 1..MaxAssets, h \in BOOLEAN, m \in SUBSET ItemIds, c \in SUBSET ItemIds :
          oj = [pc |-> "download", assets |-> n, post_job_action |-> h, meta |-> m,
                job_products |-> 0, parsed |-> {}, job_items |-> {}, hook_calls |-> 0,
                returned |-> {}, held |-> FALSE, entered |-> 0, root0 |-> c, root |-> c,
                added |-> {}, pickle |-> c, dumps |-> 0, raised_at |-> "none"]

OjFrame ==
    UNCHANGED <<status, persisted, to_restart_failed, to_resume_postjob, n_threads, remote,
                ppc, todo, pwrite, fut, wkind, wpc, attempt, cbseen, lock, catalog, checkpoint,
                final, logfile, nsub, merges, origin, item_id, rt, temporal_extent, quintads,
                splitter, polygons, max_points, split_datasets>>

\* One turn of the download loop: the asset is written to its output path.
OjDownloadAsset ==
    /\ oj.pc = "download" /\ oj.job_products < oj.assets
    /\ oj' = [oj EXCEPT !.job_products = @ + 1]
    /\ OjFrame

\* Download variant for comparison: a failed asset is logged and the loop goes on.
OjDownloadSwallow ==
    /\ oj.pc = "download" /\ oj.job_products < oj.assets
    /\ oj' = [oj EXCEPT !.job_products = @ + 1, !.raised_at = "download"]
    /\ OjFrame

\* The download of the asset raises: logged and raised again.
OjDownloadRaise ==
    /\ oj.pc = "download" /\ oj.job_products < oj.assets
    /\ oj' = [oj EXCEPT !.pc = "raised", !.raised_at = "download"]
    /\ OjFrame

\* The metadata loop: an item that cannot be read or matched is logged and left out.
OjParseItems ==
    /\ oj.pc = "download" /\ oj.job_products = oj.assets
    /\ \E kept \in SUBSET oj.meta :
          oj' = [oj EXCEPT !.pc = "hook", !.parsed = kept, !.job_items = kept]
    /\ OjFrame

\* No hook was given: the parsed items go on as they are.
OjNoHook ==
    /\ oj.pc = "hook" /\ ~oj.post_job_action
    /\ oj' = [oj EXCEPT !.pc = "lock"]
    /\ OjFrame

\* The hook is called with the parsed items and its result replaces them.
OjCallHook ==
    /\ oj.pc = "hook" /\ oj.post_job_action
    /\ \E out \in SUBSET ItemIds :
          oj' = [oj EXCEPT !.pc = "lock", !.hook_calls = @ + 1, !.returned = out,
                           !.job_items = out]
    /\ OjFrame

\* The hook raises: nothing guards the call.
OjHookRaise ==
    /\ oj.pc = "hook" /\ oj.post_job_action
    /\ oj' = [oj EXCEPT !.pc = "raised", !.hook_calls = @ + 1, !.raised_at = "hook"]
    /\ OjFrame

\* `with lock:`
OjAcquire ==
    /\ oj.pc = "lock"
    /\ oj' = [oj EXCEPT !.pc = "filter", !.held = TRUE, !.entered = @ + 1]
    /\ OjFrame

\* Hook variant for comparison: called with the lock held, its result arrives too late.
OjFilterAddHooked ==
    /\ oj.pc = "filter"
    /\ \E out \in SUBSET ItemIds :
          oj' = [oj EXCEPT !.pc = "persist", !.job_items = oj.parsed \ oj.root,
                           !.root = @ \cup (oj.parsed \ oj.root),
                           !.added = oj.parsed \ oj.root,
                           !.hook_calls = IF oj.post_job_action THEN 2 ELSE 0,
                           !.returned = out]
    /\ OjFrame

\* Items whose id is already in the root collection are dropped, the rest is added.
OjFilterAdd ==
    /\ oj.pc = "filter"
    /\ oj' = [oj EXCEPT !.pc = "persist", !.job_items = @ \ oj.root,
                        !.root = @ \cup (oj.job_items \ oj.root),
                        !.added = oj.job_items \ oj.root]
    /\ OjFrame

\* _persist_stac writes the checkpoint; the lock is released on the way out.
OjPersist ==
    /\ oj.pc = "persist"
    /\ oj' = [oj EXCEPT !.pc = "returned", !.pickle = oj.root, !.dumps = @ + 1,
                        !.held = FALSE]
    /\ OjFrame

\* _persist_stac raises: logged, raised again, the lock is released on the way out.
OjPersistRaise ==
    /\ oj.pc = "persist"
    /\ oj' = [oj EXCEPT !.pc = "raised", !.raised_at = "persist", !.held = FALSE]
    /\ OjFrame

NextOnJobDone ==
    \/ OjDownloadAsset
    \/ OjDownloadRaise
    \/ OjParseItems
    \/ OjNoHook
    \/ OjCallHook
    \/ OjHookRaise
    \/ OjAcquire
    \/ OjFilterAdd
    \/ OjPersist
    \/ OjPersistRaise

SpecOnJobDone == InitOnJobDone /\ [][NextOnJobDone]_vars

(***************************************************************************)
(* C23: when the download of an asset raises, the attempt ends with the    *)
(* exception and has touched nothing: the root collection and the          *)
(* checkpoint are as they were, the hook was not called, the lock was      *)
(* never taken.                                                            *)
(***************************************************************************)
C23_DownloadRaiseAborts ==
    oj.pc # "idle" /\ oj.raised_at = "download" =>
        /\ oj.pc = "raised"
        /\ oj.root = oj.root0 /\ oj.added = {}
        /\ oj.hook_calls = 0
        /\ oj.entered = 0 /\ ~oj.held
        /\ oj.dumps = 0 /\ oj.pickle = oj.root0

C23_Witness ==
    /\ oj.pc = "raised" /\ oj.raised_at = "download"
    /\ oj.job_products = 1 /\ oj.assets = 2
    /\ oj.post_job_action /\ oj.meta # {}

(***************************************************************************)
(* C29: the hook is called at most once in an attempt, when every asset    *)
(* is downloaded and the lock is neither held nor was taken before; what   *)
(* is filtered against the ids of the root collection and added is the     *)
(* list the hook returned.                                                 *)
(***************************************************************************)
C29_HookOnceBeforeLock ==
    /\ [](oj.pc # "idle" =>
            /\ oj.hook_calls <= 1
            /\ (oj.post_job_action /\ oj.pc \in {"persist", "returned"}) =>
                  /\ oj.hook_calls = 1
                  /\ oj.added = oj.returned \ oj.root0
                  /\ oj.root = oj.root0 \cup oj.returned)
    /\ [][(oj.pc # "idle" /\ oj.hook_calls' # oj.hook_calls) =>
             /\ oj.job_products = oj.assets
             /\ ~oj.held /\ ~oj'.held /\ oj.entered = 0]_vars

C29_Witness ==
    /\ oj.pc = "returned" /\ oj.post_job_action /\ oj.hook_calls = 1
    /\ oj.parsed = {1} /\ oj.returned = {2} /\ oj.root0 = {} /\ oj.root = {2}

(***************************************************************************)
(* One attempt of on_job_error, statement by statement.  `remote_logs` is  *)
(* what the backend holds for the job, one level per entry; `files` is the *)
(* failed_jobs directory, a set of [path, text] records.                   *)
(***************************************************************************)
MaxLogs == 2

Levels == {"error", "ERROR", "warning", "info"}

\* str.lower() on a level.
Lower(level) == IF level = "ERROR" THEN "error" ELSE level

RECURSIVE LogLists(_)
LogLists(n) ==
    IF n = 0 THEN {<< >>}
    ELSE LogLists(n - 1) \cup {Append(l, v) : l \in {x \in LogLists(n - 1) : Len(x) = n - 1},
                                              v \in Levels}

\* Filter variant for comparison: every entry is kept.
AllLogs(logs) == logs

\* error_logs = [log for log in logs if log.level.lower() == "error"]
ErrorLogs(logs) == SelectSeq(logs, LAMBDA level : Lower(level) = "error")

\* The path <output_dir>/failed_jobs/<title>_<id>.log of a job.
LogPath(job_id) == <<"failed_jobs", job_id>>

Placeholder(job_id) == <<"check the error manually on job ID", job_id>>

InitOnJobError ==
    /\ ManagerAtRest
    /\ rt = RetryIdle
    /\ temporal_extent = << >>
    /\ quintads = << >>
    /\ splitter = "none"
    /\ polygons = << >>
    /\ max_points = 0
    /\ split_datasets = << >>
    /\ \E j \in 1..NRows, l \in LogLists(MaxLogs), old \in BOOLEAN :
          oj = [pc |-> "logs", job_id |-> j, remote_logs |-> l, logs |-> << >>,
                fetched |-> FALSE, error_logs |-> << >>,
                files |-> IF old THEN {[path |-> LogPath(j), text |-> Placeholder(j)]}
                          ELSE {}]

\* job.logs() answers.
OeFetchLogs ==
    /\ oj.pc = "logs"
    /\ oj' = [oj EXCEPT !.pc = "describe", !.logs = oj.remote_logs, !.fetched = TRUE,
                        !.error_logs = ErrorLogs(oj.remote_logs)]
    /\ OjFrame

\* job.logs() raises: logged, and the attempt goes on with no logs.
OeFetchRaise ==
    /\ oj.pc = "logs"
    /\ oj' = [oj EXCEPT !.pc = "describe", !.logs = << >>, !.error_logs = ErrorLogs(<< >>)]
    /\ OjFrame

\* describe_job and mkdir answer.
OeDescribe ==
    /\ oj.pc = "describe"
    /\ oj' = [oj EXCEPT !.pc = "write"]
    /\ OjFrame

\* describe_job (or mkdir) raises: nothing guards it.
OeDescribeRaise ==
    /\ oj.pc = "describe"
    /\ oj' = [oj EXCEPT !.pc = "raised"]
    /\ OjFrame

\* write_text replaces whatever the path held.
OeWrite ==
    /\ oj.pc = "write"
    /\ LET path == LogPath(oj.job_id)
           text == IF Len(oj.error_logs) > 0 THEN <<"json", oj.error_logs>>
                   ELSE Placeholder(oj.job_id)
       IN  oj' = [oj EXCEPT !.pc = "returned",
                            !.files = {f \in @ : f.path # path}
                                        \cup {[path |-> path, text |-> text]}]
    /\ OjFrame

NextOnJobError ==
    \/ OeFetchLogs
    \/ OeFetchRaise
    \/ OeDescribe
    \/ OeDescribeRaise
    \/ OeWrite

SpecOnJobError == InitOnJobError /\ [][NextOnJobError]_vars

(***************************************************************************)
(* C24: when on_job_error has returned, the failed_jobs directory holds    *)
(* exactly one file for the job; it holds the error-level entries of the   *)
(* remote logs, in their order and nothing else, when the logs were        *)
(* retrieved and have such an entry, and otherwise the placeholder that    *)
(* names the job id.                                                       *)
(***************************************************************************)
C24_OneLogFile ==
    (oj.pc = "returned" /\ "files" \in DOMAIN oj) =>
        LET mine == {f \in oj.files : f.path[2] = oj.job_id}
            hits == {i \in 1..Len(oj.remote_logs) :
                        oj.remote_logs[i] \in {"error", "ERROR"}}
        IN  /\ Cardinality(mine) = 1
            /\ \A f \in mine :
                  IF oj.fetched /\ hits # {}
                  THEN /\ f.text[1] = "json"
                       /\ Len(f.text[2]) = Cardinality(hits)
                       /\ \A k \in 1..Len(f.text[2]) : f.text[2][k] \in {"error", "ERROR"}
                  ELSE f.text = Placeholder(oj.job_id)

C24_Witness ==
    /\ oj.pc = "returned" /\ "files" \in DOMAIN oj
    /\ oj.fetched /\ oj.remote_logs = <<"warning", "ERROR">>
    /\ oj.files = {[path |-> LogPath(oj.job_id), text |-> <<"json", <<"ERROR">> >>]}

----------------------------------------------------------------------------
(* Claims on the end of run_jobs, the checkpoint and the startup *)

C26_CheckpointConsistent ==
    (lock = 0 /\ \E r \in Rows : merges[r] >= 1) =>
        checkpoint.state = "complete" /\ checkpoint.items = catalog

(***************************************************************************)
(* _normalize_stac, called once by __init__.  A catalog file is absent,    *)
(* unreadable or holds a set of item ids; the stac argument is None or a   *)
(* path, whose file may be any of these.                                   *)
(***************************************************************************)
None == [state |-> "None"]

CatalogFiles ==
    {[state |-> "absent"], [state |-> "unreadable"]}
        \cup {[state |-> "readable", items |-> s] : s \in SUBSET ItemIds}

\* pickle.load / pystac.read_file of a file that exists or was named.
ReadCatalog(file, origin_name) ==
    IF file.state = "readable"
    THEN [kind |-> "loaded", from |-> origin_name, items |-> file.items]
    ELSE [kind |-> "raised", from |-> origin_name]

\* Priority variant for comparison: the caller's path is looked at first.
normalize_stac_caller_first(catalogue_cache, stac, default_collection, collection_id) ==
    IF stac # None THEN ReadCatalog(stac, "stac")
    ELSE IF catalogue_cache.state # "absent"
    THEN ReadCatalog(catalogue_cache, "catalogue_cache")
    ELSE IF default_collection.state # "absent"
    THEN ReadCatalog(default_collection, "default")
    ELSE IF collection_id = None THEN [kind |-> "raised", from |-> "assert"]
    ELSE [kind |-> "fresh", from |-> collection_id, items |-> {}]

_normalize_stac(catalogue_cache, stac, default_collection, collection_id) ==
    IF catalogue_cache.state # "absent"
    THEN ReadCatalog(catalogue_cache, "catalogue_cache")
    ELSE IF stac # None THEN ReadCatalog(stac, "stac")
    ELSE IF default_collection.state # "absent"
    THEN ReadCatalog(default_collection, "default")
    ELSE IF collection_id = None THEN [kind |-> "raised", from |-> "assert"]
    ELSE [kind |-> "fresh", from |-> collection_id, items |-> {}]

InitNormalizeStac ==
    /\ ManagerAtRest
    /\ rt = RetryIdle
    /\ temporal_extent = << >>
    /\ quintads = << >>
    /\ splitter = "none"
    /\ polygons = << >>
    /\ max_points = 0
    /\ split_datasets = << >>
    /\ \E c \in CatalogFiles, s \in CatalogFiles \cup {None},
          d \in CatalogFiles \ {[state |-> "unreadable"]},
          id \in {None, [state |-> "collection_id"]} :
          oj = [pc |-> "init", catalogue_cache |-> c, stac |-> s,
                default_collection |-> d, collection_id |-> id,
                root_collection |-> None]

\* self._root_collection = self._normalize_stac(); a raise leaves __init__.
CallNormalizeStac ==
    /\ oj.pc = "init"
    /\ LET root == _normalize_stac(oj.catalogue_cache, oj.stac, oj.default_collection,
                                   oj.collection_id)
       IN  oj' = [oj EXCEPT !.pc = IF root.kind = "raised" THEN "raised" ELSE "constructed",
                            !.root_collection = root]
    /\ OjFrame

SpecNormalizeStac == InitNormalizeStac /\ [][CallNormalizeStac]_vars

(***************************************************************************)
(* C30: the starting catalog is the checkpoint when that file exists, else *)
(* the catalog at the stac path when one was given, else the catalog at    *)
(* output_dir/stac/collection.json when it exists, else a fresh empty      *)
(* collection with the given collection_id; the fresh case fails on the    *)
(* assertion when collection_id is None, and no fresh collection is made   *)
(* when any of the three earlier sources is there.                         *)
(***************************************************************************)
C30_CatalogPriority ==
    (oj.pc \in {"constructed", "raised"} /\ "root_collection" \in DOMAIN oj) =>
        LET root == oj.root_collection
            cache_there == oj.catalogue_cache.state # "absent"
            default_there == oj.default_collection.state # "absent"
            Taken(file, name) ==
                /\ root.from = name
                /\ root.kind = "loaded" => file.state = "readable" /\ root.items = file.items
                /\ root.kind # "fresh"
        IN  /\ cache_there => Taken(oj.catalogue_cache, "catalogue_cache")
            /\ (~cache_there /\ oj.stac # None) => Taken(oj.stac, "stac")
            /\ (~cache_there /\ oj.stac = None /\ default_there)
                  => Taken(oj.default_collection, "default")
            /\ (~cache_there /\ oj.stac = None /\ ~default_there) =>
                  IF oj.collection_id = None
                  THEN oj.pc = "raised" /\ root.from = "assert"
                  ELSE root = [kind |-> "fresh", from |-> oj.collection_id, items |-> {}]
            /\ root.kind = "fresh" => ~cache_there /\ oj.stac = None /\ ~default_there

C30_Witness ==
    /\ oj.pc = "constructed" /\ "root_collection" \in DOMAIN oj
    /\ oj.catalogue_cache = [state |-> "readable", items |-> {1}]
    /\ oj.stac = [state |-> "readable", items |-> {2}]
    /\ oj.default_collection = [state |-> "readable", items |-> {}]
    /\ oj.root_collection.items = {1}

----------------------------------------------------------------------------
(* The process stops and a new manager is built on the same output_dir *)

\* A catalog file of the manager as _normalize_stac finds it.
AsCatalogFile(file) ==
    IF file.state = "absent" THEN [state |-> "absent"]
    ELSE IF file.state = "torn" THEN [state |-> "unreadable"]
    ELSE [state |-> "readable", items |-> {i \in Rows : file.items[i] >= 1}]

\* The checkpoint file the process can leave when it stops now: _persist_stac
\* opens the one file with "wb", which empties it, and dumps into it.
DiskAtStop ==
    IF \E r \in Rows : wpc[r] = "writing" THEN {checkpoint, Torn, Saved(catalog)}
    ELSE {checkpoint}

\* C27: whenever the process stops, a manager built anew on the output_dir
\* starts from a collection that holds the item of every job whose
\* on_job_done has returned, so that a second on_job_done of such a job finds
\* its item among the existing ids and adds nothing.
C27_CrashRoundTrip ==
    \A disk \in DiskAtStop :
        LET root == _normalize_stac(AsCatalogFile(disk), None, AsCatalogFile(final),
                                    [state |-> "collection_id"])
        IN  \A r \in Rows :
                (OnJobDoneReturned(r) /\ merges[r] >= 1) =>
                    root.kind # "raised" /\ {item_id[r]} \ root.items = {}

----------------------------------------------------------------------------
(* Startup recovery over the whole run *)

\* The step of _update_statuses that applies resume_postproc.
ResumeStep == to_resume_postjob /\ ~to_resume_postjob'

\* Each recovery step runs at most once, the restart before the resume, both
\* before the polling thread iterates a row; no other step resets a failed
\* row to not_started or submits a row as resumed.
RecoveryOnceInOrder ==
    /\ [][/\ ~to_restart_failed => ~to_restart_failed'
          /\ ~to_resume_postjob => ~to_resume_postjob'
          /\ ResumeStep => ~to_restart_failed
          /\ (RestartStep \/ ResumeStep) => ppc = "start" /\ ppc' = "start"
          /\ ppc' = "poll" => ~to_restart_failed' /\ ~to_resume_postjob']_vars
    /\ [][\A r \in Rows :
            /\ (status[r] \in {"error", "start_failed"} /\ status'[r] = "not_started")
                  => RestartStep
            /\ (origin[r] # "resumed" /\ origin'[r] = "resumed") => ResumeStep]_vars

\* C28: startup recovery runs once and in order, before any row is polled,
\* and a row that is in error stays in error through every step other than
\* the restart step of the startup.
C28_StartupRecoveryOnce ==
    /\ RecoveryOnceInOrder
    /\ [][\A r \in Rows :
            (status[r] = "error" /\ ~RestartStep) => status'[r] = "error"]_vars

====
